---- MODULE Spec2Model ----
(***************************************************************************)
(* A model of package imsg (github.com/schultz-is/go-imsg): the IMsg      *)
(* codec of src/unnamed/part_001 (the revision of imsg.go that            *)
(* src/errors.go and src/imsg_test.go belong to: it is the one that       *)
(* returns the typed errors and defines UnmarshalBinary and                *)
(* SystemEndianness).                                                      *)
(*                                                                         *)
(* Bytes are the integers 0..255 and a []byte is a sequence of them.  A    *)
(* *IMsg is a sequence of at most one IMsg record, so that the nil         *)
(* pointer is << >>.  The caller of the package holds one IMsg (im), one   *)
(* io.Reader (r) and the outcome of its last call (call).                  *)
(*                                                                         *)
(* TLC's integers are 32 bits wide and signed, so the uint32 values the    *)
(* model draws stay below 2^31; the other widths are kept.                 *)
(***************************************************************************)
EXTENDS Integers, Sequences, FiniteSets, TLC

VARIABLES
    endianness,  \* the package variable endianness
    pid,         \* what os.Getpid() returns in this process
    im,          \* the IMsg the caller holds
    r,           \* the io.Reader the caller holds
    call         \* the last call of the package and what it returned

vars == <<endianness, pid, im, r, call>>

----------------------------------------------------------------------------
(* Constants of the package.                                               *)

HeaderSizeInBytes == 16

MaxSizeInBytes == 16384

(* Bounds of the model.                                                    *)

\* payloads of every length 0..MaxSmallLen over SmallBytes are drawn
MaxSmallLen == 2

\* payload lengths within Slack of MaxSizeInBytes - HeaderSizeInBytes are drawn
Slack == 1

\* a stream reader delivers 1..MaxChunk bytes per Read call
MaxChunk == 2

\* the caller calls ReadIMsg on one reader at most MaxReads times
MaxReads == 2

\* the caller marshals at most MaxMsgs messages into one buffer
MaxMsgs == 2

----------------------------------------------------------------------------
(* encoding/binary: the two byte orders.                                   *)

LittleEndian == "LittleEndian"

BigEndian == "BigEndian"

Pow256(k) == IF k = 0 THEN 1 ELSE IF k = 1 THEN 256 ELSE IF k = 2 THEN 65536 ELSE 16777216

\* order.PutUint16 / order.PutUint32: the n bytes of v in the byte order
PutUint(order, v, n) ==
    IF order = LittleEndian
    THEN [k \in 1..n |-> (v \div Pow256(k - 1)) % 256]
    ELSE [k \in 1..n |-> (v \div Pow256(n - k)) % 256]

\* order.Uint16 / order.Uint32: the value of the bytes b in the byte order
Uint(order, b) ==
    LET n == Len(b)
        term(k) == IF order = LittleEndian
                   THEN b[k] * Pow256(k - 1)
                   ELSE b[k] * Pow256(n - k)
    IN IF n = 2 THEN term(1) + term(2)
       ELSE term(1) + term(2) + term(3) + term(4)

\* the conversion uint16(x) of a non-negative int
Uint16(x) == x % 65536

----------------------------------------------------------------------------
(* Errors.                                                                 *)

nil == [kind |-> "nil"]

EOF == [kind |-> "io.EOF"]

ErrUnexpectedEOF == [kind |-> "io.ErrUnexpectedEOF"]

ErrDataTooLarge(dataLen, maxLen) ==
    [kind |-> "ErrDataTooLarge",
     DataLengthInBytes |-> dataLen,
     MaxLengthInBytes |-> Uint16(maxLen)]

ErrLengthOutOfBounds(length, minLen, maxLen) ==
    [kind |-> "ErrLengthOutOfBounds",
     LengthInBytes |-> length,
     MinLengthInBytes |-> Uint16(minLen),
     MaxLengthInBytes |-> Uint16(maxLen)]

ErrInsufficientData(expected, read) ==
    [kind |-> "ErrInsufficientData",
     ExpectedBytes |-> Uint16(expected),
     ReadBytes |-> read]

----------------------------------------------------------------------------
(* The IMsg and its header.                                                *)

IMsg(typ, peerID, processID, data, flags) ==
    [Type |-> typ, PeerID |-> peerID, PID |-> processID, Data |-> data, flags |-> flags]

\* IMsg{}: the zero value
ZeroIMsg == IMsg(0, 0, 0, << >>, 0)

imsgHeader(typ, length, flags, peerID, processID) ==
    [Type |-> typ, Length |-> length, Flags |-> flags, PeerID |-> peerID, PID |-> processID]

\* binary.Write(&buf, order, hdr): the fields in declaration order, no padding
WriteHeader(order, hdr) ==
    PutUint(order, hdr.Type, 4) \o PutUint(order, hdr.Length, 2)
        \o PutUint(order, hdr.Flags, 2) \o PutUint(order, hdr.PeerID, 4)
        \o PutUint(order, hdr.PID, 4)

\* DecodeHeader as it would be if imsgHeader declared Flags before Length
DecodeHeaderFlagsFirst(order, b) ==
    imsgHeader(Uint(order, SubSeq(b, 1, 4)),
               Uint(order, SubSeq(b, 7, 8)),
               Uint(order, SubSeq(b, 5, 6)),
               Uint(order, SubSeq(b, 9, 12)),
               Uint(order, SubSeq(b, 13, 16)))

\* the decoding half of binary.Read(r, order, &hdr), from the 16 bytes read
DecodeHeader(order, b) ==
    imsgHeader(Uint(order, SubSeq(b, 1, 4)),
               Uint(order, SubSeq(b, 5, 6)),
               Uint(order, SubSeq(b, 7, 8)),
               Uint(order, SubSeq(b, 9, 12)),
               Uint(order, SubSeq(b, 13, 16)))

----------------------------------------------------------------------------
(* io.Reader.  A reader is the bytes s of its source, the offset i of the  *)
(* next unread byte and chunk, the most bytes one Read call delivers:      *)
(* chunk = 0 is a bytes.Reader, which delivers all it has; chunk > 0 is a  *)
(* stream (a socket) that delivers its bytes chunk at a time.              *)

NewReader(b, chunk) == [s |-> b, i |-> 0, chunk |-> chunk]

\* the element of a one-element set.  Only({F(x) : x \in {e}}) is F(e) with e
\* evaluated once, as a call's result is held in a local variable
Only(S) == CHOOSE x \in S : TRUE

Min(a, b) == IF a <= b THEN a ELSE b

\* rd.Read(p) with len(p) = n: what one call returns, and the reader after it
Read(rd, n) ==
    IF rd.i >= Len(rd.s)
    THEN [n |-> 0, err |-> EOF, data |-> << >>, r |-> rd]
    ELSE LET avail == Len(rd.s) - rd.i
             copied(k) == [n |-> k, err |-> nil,
                           data |-> SubSeq(rd.s, rd.i + 1, rd.i + k),
                           r |-> [rd EXCEPT !.i = @ + k]]
         IN Only({copied(k) : k \in {IF rd.chunk = 0 THEN Min(n, avail)
                                      ELSE Min(n, Min(avail, rd.chunk))}})

\* the loop of io.ReadAtLeast under io.ReadFull(rd, buf) with len(buf) = n;
\* got is what the earlier iterations have read
RECURSIVE ReadFull(_, _, _)
ReadFull(rd, n, got) ==
    IF Len(got) >= n
    THEN [data |-> got, err |-> nil, r |-> rd]
    ELSE LET next(x, buf) ==
                 IF x.err # nil
                 THEN [data |-> buf,
                       err |-> IF Len(buf) > 0 /\ x.err = EOF
                               THEN ErrUnexpectedEOF ELSE x.err,
                       r |-> x.r]
                 ELSE ReadFull(x.r, n, buf)
         IN Only({next(x, got \o x.data) : x \in {Read(rd, n - Len(got))}})

----------------------------------------------------------------------------
(* The package's functions.  Each returns a record of its results; the     *)
(* ones that read return the reader as they leave it, and ReadIMsg also    *)
(* says whether it allocated the payload buffer and how many payload Read  *)
(* calls it issued.                                                        *)

\* Len as it would be if it never reported more than MaxSizeInBytes
IMsgLenCapped(m) == Min(Len(m.Data) + HeaderSizeInBytes, MaxSizeInBytes)

\* func (im *IMsg) Len() int
IMsgLen(m) == Len(m.Data) + HeaderSizeInBytes

\* ComposeIMsg as it would be if it compared the data with MaxSizeInBytes
ComposeIMsgWholeSize(typ, peerID, data, getpid) ==
    IF Len(data) > MaxSizeInBytes
    THEN [ret |-> << >>,
          err |-> ErrDataTooLarge(Len(data), MaxSizeInBytes - HeaderSizeInBytes)]
    ELSE [ret |-> <<IMsg(typ, peerID, getpid, data, 0)>>, err |-> nil]

\* ComposeIMsg as it would be if it left PID unset
ComposeIMsgNoPid(typ, peerID, data, getpid) ==
    IF Len(data) > MaxSizeInBytes - HeaderSizeInBytes
    THEN [ret |-> << >>,
          err |-> ErrDataTooLarge(Len(data), MaxSizeInBytes - HeaderSizeInBytes)]
    ELSE [ret |-> <<IMsg(typ, peerID, 0, data, 0)>>, err |-> nil]

\* func ComposeIMsg(typ, peerID uint32, data []byte) (*IMsg, error)
ComposeIMsg(typ, peerID, data, getpid) ==
    IF Len(data) > MaxSizeInBytes - HeaderSizeInBytes
    THEN [ret |-> << >>,
          err |-> ErrDataTooLarge(Len(data), MaxSizeInBytes - HeaderSizeInBytes)]
    ELSE [ret |-> <<IMsg(typ, peerID, getpid, data, 0)>>, err |-> nil]

\* MarshalBinary as it would be if it refused a message of MaxSizeInBytes
MarshalBinaryOffByOne(order, m) ==
    IF IMsgLen(m) >= MaxSizeInBytes
    THEN [ret |-> << >>,
          err |-> ErrDataTooLarge(Len(m.Data), MaxSizeInBytes - HeaderSizeInBytes)]
    ELSE LET hdr == imsgHeader(m.Type, Uint16(IMsgLen(m)), m.flags, m.PeerID, m.PID)
         IN [ret |-> WriteHeader(order, hdr) \o m.Data, err |-> nil]

\* MarshalBinary as it would be if it wrote the payload's length as the length
MarshalBinaryDataLength(order, m) ==
    IF IMsgLen(m) > MaxSizeInBytes
    THEN [ret |-> << >>,
          err |-> ErrDataTooLarge(Len(m.Data), MaxSizeInBytes - HeaderSizeInBytes)]
    ELSE LET hdr == imsgHeader(m.Type, Uint16(Len(m.Data)), m.flags, m.PeerID, m.PID)
         IN [ret |-> WriteHeader(order, hdr) \o m.Data, err |-> nil]

\* MarshalBinary as it would be if it wrote the header without comparing
\* the size with MaxSizeInBytes
MarshalBinaryNoSizeCheck(order, m) ==
    LET hdr == imsgHeader(m.Type, Uint16(IMsgLen(m)), m.flags, m.PeerID, m.PID)
    IN [ret |-> WriteHeader(order, hdr) \o m.Data, err |-> nil]

\* func (im IMsg) MarshalBinary() ([]byte, error)
MarshalBinary(order, m) ==
    IF IMsgLen(m) > MaxSizeInBytes
    THEN [ret |-> << >>,
          err |-> ErrDataTooLarge(Len(m.Data), MaxSizeInBytes - HeaderSizeInBytes)]
    ELSE LET hdr == imsgHeader(m.Type, Uint16(IMsgLen(m)), m.flags, m.PeerID, m.PID)
         IN [ret |-> WriteHeader(order, hdr) \o m.Data, err |-> nil]

\* the length check as it would be if it refused a bare header
LengthOutOfBoundsOffByOne(length) ==
    length <= HeaderSizeInBytes \/ length > MaxSizeInBytes

\* the length check of ReadIMsg
LengthOutOfBounds(length) ==
    length < HeaderSizeInBytes \/ length > MaxSizeInBytes

\* ReadPayload as it would be if it read the source to its end (io.ReadAll)
\* and kept the first bytes as the payload
ReadPayloadToEnd(rd, hdr) ==
    LET size == Uint16(hdr.Length - HeaderSizeInBytes)
        after(x) ==
            IF x.err # nil
            THEN [ret |-> << >>, err |-> x.err, r |-> x.r,
                  allocated |-> TRUE, payloadReads |-> 1]
            ELSE IF x.n < size
            THEN [ret |-> << >>,
                  err |-> ErrInsufficientData(hdr.Length - HeaderSizeInBytes, x.n),
                  r |-> x.r, allocated |-> TRUE, payloadReads |-> 1]
            ELSE [ret |-> <<IMsg(hdr.Type, hdr.PeerID, hdr.PID,
                                 SubSeq(x.data, 1, size), hdr.Flags)>>,
                  err |-> nil, r |-> x.r, allocated |-> TRUE, payloadReads |-> 1]
    IN Only({after(x) : x \in {Read(rd, Len(rd.s) - rd.i)}})

\* ReadPayload as it would be if it dropped the count that Read returns:
\* what Read did not fill of the buffer stays zero
ReadPayloadUnchecked(rd, hdr) ==
    LET size == Uint16(hdr.Length - HeaderSizeInBytes)
        after(x) ==
            IF x.err # nil
            THEN [ret |-> << >>, err |-> x.err, r |-> x.r,
                  allocated |-> TRUE, payloadReads |-> 1]
            ELSE [ret |-> <<IMsg(hdr.Type, hdr.PeerID, hdr.PID,
                                 x.data \o [k \in 1..(size - x.n) |-> 0], hdr.Flags)>>,
                  err |-> nil, r |-> x.r, allocated |-> TRUE, payloadReads |-> 1]
    IN Only({after(x) : x \in {Read(rd, size)}})

\* the payload half of ReadIMsg, entered when hdr.Length > HeaderSizeInBytes
ReadPayload(rd, hdr) ==
    LET size == Uint16(hdr.Length - HeaderSizeInBytes)
        after(x) ==
            IF x.err # nil
            THEN [ret |-> << >>, err |-> x.err, r |-> x.r,
                  allocated |-> TRUE, payloadReads |-> 1]
            ELSE IF x.n # hdr.Length - HeaderSizeInBytes
            THEN [ret |-> << >>,
                  err |-> ErrInsufficientData(hdr.Length - HeaderSizeInBytes, x.n),
                  r |-> x.r, allocated |-> TRUE, payloadReads |-> 1]
            ELSE [ret |-> <<IMsg(hdr.Type, hdr.PeerID, hdr.PID, x.data, hdr.Flags)>>,
                  err |-> nil, r |-> x.r, allocated |-> TRUE, payloadReads |-> 1]
    IN Only({after(x) : x \in {Read(rd, size)}})

\* ReadHeader as it would be if it reported a short header as insufficient data
ReadHeaderReclassified(order, rd) ==
    LET after(h) ==
            [hdr |-> IF h.err = nil THEN DecodeHeader(order, h.data)
                     ELSE imsgHeader(0, 0, 0, 0, 0),
             err |-> IF h.err = nil THEN nil
                     ELSE ErrInsufficientData(HeaderSizeInBytes, Len(h.data)),
             r |-> h.r]
    IN Only({after(h) : h \in {ReadFull(rd, HeaderSizeInBytes, << >>)}})

\* the header half of ReadIMsg: binary.Read(r, endianness, &hdr) reads
\* binary.Size(hdr) = 16 bytes with io.ReadFull and decodes them
ReadHeader(order, rd) ==
    LET after(h) ==
            [hdr |-> IF h.err = nil THEN DecodeHeader(order, h.data)
                     ELSE imsgHeader(0, 0, 0, 0, 0),
             err |-> h.err, r |-> h.r]
    IN Only({after(h) : h \in {ReadFull(rd, HeaderSizeInBytes, << >>)}})

\* ReadIMsg as it would be if it checked the length after reading the payload
ReadIMsgLateCheck(order, rd) ==
    LET after(h) ==
            LET hdr == h.hdr
                fail(e) == [ret |-> << >>, err |-> e, r |-> h.r,
                            allocated |-> FALSE, payloadReads |-> 0]
                outOfBounds ==
                    ErrLengthOutOfBounds(hdr.Length, HeaderSizeInBytes, MaxSizeInBytes)
                refuse(p) == [ret |-> << >>, err |-> outOfBounds, r |-> p.r,
                              allocated |-> TRUE, payloadReads |-> 1]
            IN IF h.err # nil
               THEN fail(h.err)
               ELSE IF hdr.Length > HeaderSizeInBytes
               THEN IF LengthOutOfBounds(hdr.Length)
                    THEN Only({refuse(p) : p \in {ReadPayload(h.r, hdr)}})
                    ELSE ReadPayload(h.r, hdr)
               ELSE IF LengthOutOfBounds(hdr.Length)
               THEN fail(outOfBounds)
               ELSE [ret |-> <<IMsg(hdr.Type, hdr.PeerID, hdr.PID, << >>, hdr.Flags)>>,
                     err |-> nil, r |-> h.r, allocated |-> FALSE, payloadReads |-> 0]
    IN Only({after(h) : h \in {ReadHeader(order, rd)}})

\* func ReadIMsg(r io.Reader) (*IMsg, error)
ReadIMsg(order, rd) ==
    LET after(h) ==
            LET hdr == h.hdr
                fail(e) == [ret |-> << >>, err |-> e, r |-> h.r,
                            allocated |-> FALSE, payloadReads |-> 0]
            IN IF h.err # nil
               THEN fail(h.err)
               ELSE IF LengthOutOfBounds(hdr.Length)
               THEN fail(ErrLengthOutOfBounds(hdr.Length, HeaderSizeInBytes,
                                              MaxSizeInBytes))
               ELSE IF hdr.Length > HeaderSizeInBytes
               THEN ReadPayload(h.r, hdr)
               ELSE [ret |-> <<IMsg(hdr.Type, hdr.PeerID, hdr.PID, << >>, hdr.Flags)>>,
                     err |-> nil, r |-> h.r, allocated |-> FALSE, payloadReads |-> 0]
    IN Only({after(h) : h \in {ReadHeader(order, rd)}})

\* UnmarshalBinary as it would be if it did not copy the flags of the message
\* that ReadIMsg returns
UnmarshalBinaryNoFlags(order, m, data) ==
    LET after(res) ==
            IF res.err # nil
            THEN [im |-> m, err |-> res.err]
            ELSE LET im2 == res.ret[1]
                 IN [im |-> [m EXCEPT !.Type = im2.Type, !.PeerID = im2.PeerID,
                                      !.PID = im2.PID, !.Data = im2.Data],
                     err |-> nil]
    IN Only({after(res) : res \in {ReadIMsg(order, NewReader(data, 0))}})

\* UnmarshalBinary as it would be if it decoded into the receiver itself:
\* the fields of a header that passes the length check are stored before
\* the payload is read
UnmarshalBinaryInPlace(order, m, data) ==
    LET stored(h) == [m EXCEPT !.Type = h.hdr.Type, !.PeerID = h.hdr.PeerID,
                               !.PID = h.hdr.PID, !.flags = h.hdr.Flags]
        after(res, h) ==
            IF res.err # nil
            THEN [im |-> IF h.err = nil /\ ~LengthOutOfBounds(h.hdr.Length)
                         THEN stored(h) ELSE m,
                  err |-> res.err]
            ELSE [im |-> res.ret[1], err |-> nil]
    IN Only({after(res, h) : res \in {ReadIMsg(order, NewReader(data, 0))},
                             h \in {ReadHeader(order, NewReader(data, 0))}})

\* func (im *IMsg) UnmarshalBinary(data []byte) error: the receiver after
\* the call, and the error
UnmarshalBinary(order, m, data) ==
    LET after(res) ==
            IF res.err # nil
            THEN [im |-> m, err |-> res.err]
            ELSE LET im2 == res.ret[1]
                 IN [im |-> [m EXCEPT !.Type = im2.Type, !.PeerID = im2.PeerID,
                                      !.PID = im2.PID, !.Data = im2.Data,
                                      !.flags = im2.flags],
                     err |-> nil]
    IN Only({after(res) : res \in {ReadIMsg(order, NewReader(data, 0))}})

\* SystemEndianness as it would be if it reported little-endian on every
\* machine
SystemEndiannessLittle(order) == LittleEndian

\* func SystemEndianness() binary.ByteOrder
SystemEndianness(order) == order

----------------------------------------------------------------------------
(* The inputs the caller draws.                                            *)

\* the bytes of the small payloads: 't' and 0xff
SmallBytes == {116, 255}

SmallPayloads == UNION {[1..n -> SmallBytes] : n \in 0..MaxSmallLen}

\* n bytes that differ from their neighbours; they stay below 128 so that any
\* four of them read as a header field are a uint32 below 2^31
Pattern(n) == [k \in 1..n |-> (7 * k) % 128]

\* payloads around the largest one a message can carry
LargePayloads ==
    {Pattern(n) : n \in (MaxSizeInBytes - HeaderSizeInBytes - Slack)
                        ..(MaxSizeInBytes - HeaderSizeInBytes + Slack)}

\* payloads whose encoded size 16 + len is around 65536, where uint16 wraps
\* to 0, and payloads of 65536 bytes and more, where it wraps to 16
HugePayloads ==
    {Pattern(n) : n \in (65536 - HeaderSizeInBytes - Slack)
                        ..(65536 - HeaderSizeInBytes + Slack)}
        \cup {Pattern(n) : n \in 65536..(65536 + Slack)}

\* <<Type, PeerID, PID, flags>>: zero, the values of imsg_test.go, and
\* values whose bytes all differ (0x01020304, 0x05060708, 0x7feeddcc, 0xffee)
TestFields == <<255, 238, 221, 204>>

FieldValues == {<<0, 0, 0, 0>>, TestFields, <<16909060, 84281096, 2146360780, 65518>>}

\* the IMsg literals the caller writes, flags included
Messages ==
    {IMsg(f[1], f[2], f[3], d, f[4]) : f \in FieldValues, d \in SmallPayloads}
        \cup {IMsg(f[1], f[2], f[3], d, f[4]) :
                  f \in {TestFields}, d \in LargePayloads \cup HugePayloads}

\* the messages the caller marshals one after another into one buffer: with
\* no payload, with a small one and with the largest one
StreamMessages ==
    {m \in Messages :
        m.Data \in {<< >>, <<116, 255>>, Pattern(MaxSizeInBytes - HeaderSizeInBytes)}}

\* buf.Write(bs) for the bytes bs of each message of ms in turn
RECURSIVE Concatenated(_, _)
Concatenated(order, ms) ==
    IF ms = << >> THEN << >>
    ELSE MarshalBinary(order, Head(ms)).ret \o Concatenated(order, Tail(ms))

\* the values of a header's length field the caller puts on the wire
LengthValues ==
    {0, 65535} \cup (HeaderSizeInBytes - Slack)..(HeaderSizeInBytes + Slack + 1)
               \cup (MaxSizeInBytes - Slack)..(MaxSizeInBytes + Slack)

\* how many bytes follow a header that announces length: none, one, and
\* one less than, exactly and one more than it announces
Backing(length) ==
    {k \in {0, 1, length - HeaderSizeInBytes - 1, length - HeaderSizeInBytes,
            length - HeaderSizeInBytes + 1} : 0 <= k /\ k <= MaxSizeInBytes}

\* The wire format (README.md, "Data Layout"), spelled out apart from the
\* codec above: byte j (0 the least significant) of the value v
ByteOf(v, j) == (v \div (256 ^ j)) % 256

\* the n bytes of v as the wire carries them in the byte order
WireBytes(order, v, n) ==
    [k \in 1..n |-> ByteOf(v, IF order = LittleEndian THEN k - 1 ELSE n - k)]

\* a header as a peer would send it, with any length field: type, len,
\* flags, peerid, pid
WireHeader(order, f, length) ==
    WireBytes(order, f[1], 4) \o WireBytes(order, length, 2)
        \o WireBytes(order, f[4], 2) \o WireBytes(order, f[2], 4)
        \o WireBytes(order, f[3], 4)

\* the buffers the caller reads from: headers with each length field,
\* backed by each number of bytes, and every proper prefix of a header
Buffers(order) ==
    UNION {{WireHeader(order, TestFields, l) \o Pattern(k) : k \in Backing(l)} :
              l \in LengthValues}
    \cup {WireHeader(order, f, l) \o Pattern(k) :
        f \in FieldValues, l \in (HeaderSizeInBytes - 1)..(HeaderSizeInBytes + 1), k \in 0..1}
    \cup {SubSeq(WireHeader(order, f, HeaderSizeInBytes + 1), 1, n) :
        f \in FieldValues, n \in 0..(HeaderSizeInBytes - 1)}

LittleEndianBuffers == Buffers(LittleEndian)

BigEndianBuffers == Buffers(BigEndian)

\* the buffers a peer of the process's byte order sends
PeerBuffers == IF endianness = LittleEndian THEN LittleEndianBuffers ELSE BigEndianBuffers

\* the process identifiers os.Getpid() may return
Pids == {3, 4194304}

----------------------------------------------------------------------------
(* The caller.  It runs one case at a time, as the tests of imsg_test.go   *)
(* do: it writes or composes a message and marshals it, reads it back or   *)
(* unmarshals a buffer into it, or reads from a buffer a peer has sent.     *)

\* the caller has done nothing yet
Idle == call.op = "init"

\* the caller holds a message it has written or composed
HoldsMessage == call.op \in {"IMsg", "ComposeIMsg"}

Init ==
    /\ endianness \in {LittleEndian, BigEndian}
    /\ pid \in Pids
    /\ im = ZeroIMsg
    /\ r = NewReader(<< >>, 0)
    /\ call = [op |-> "init"]

\* im = &IMsg{...}: the caller writes a message literal
Literal(m) ==
    /\ im' = m
    /\ call' = [op |-> "IMsg"]
    /\ UNCHANGED <<endianness, pid, r>>

\* im, err := ComposeIMsg(typ, peerID, data); the caller keeps what it holds
\* when the call fails
CallComposeIMsg(typ, peerID, data) ==
    \E res \in {ComposeIMsg(typ, peerID, data, pid)} :
       /\ call' = [op |-> "ComposeIMsg", typ |-> typ, peerID |-> peerID,
                   data |-> data, ret |-> res.ret, err |-> res.err]
       /\ im' = IF res.err = nil THEN res.ret[1] ELSE im
       /\ UNCHANGED <<endianness, pid, r>>

\* bs, err := im.MarshalBinary()
CallMarshalBinary ==
    /\ HoldsMessage
    /\ \E res \in {MarshalBinary(endianness, im)} :
       /\ call' = [op |-> "MarshalBinary", recv |-> im, ret |-> res.ret, err |-> res.err]
       /\ UNCHANGED <<endianness, pid, im, r>>

\* r = bytes.NewReader(bs) on the bytes MarshalBinary has just returned
ReaderOfMarshalled ==
    /\ call.op = "MarshalBinary"
    /\ call.err = nil
    /\ r' = NewReader(call.ret, 0)
    /\ call' = [op |-> "NewReader", of |-> <<call.recv>>, sent |-> <<call.recv>>,
                got |-> << >>]
    /\ UNCHANGED <<endianness, pid, im>>

\* r = a reader of a buffer received from a peer, a bytes.Reader (chunk = 0)
\* or a stream
ReaderOfBuffer(b, chunk) ==
    /\ r' = NewReader(b, chunk)
    /\ call' = [op |-> "NewReader", of |-> << >>, sent |-> << >>, got |-> << >>]
    /\ UNCHANGED <<endianness, pid, im>>

\* r = bytes.NewReader(buf.Bytes()) after the caller has marshalled each
\* message of ms and written its bytes to buf
ReaderOfConcatenated(ms) ==
    /\ r' = NewReader(Concatenated(endianness, ms), 0)
    /\ call' = [op |-> "NewReader", of |-> << >>, sent |-> ms, got |-> << >>]
    /\ UNCHANGED <<endianness, pid, im>>

\* CallReadIMsg as it would be if ReadIMsg switched the package to network
\* byte order
CallReadIMsgNetworkOrder ==
    /\ \/ call.op = "NewReader"
       \/ /\ call.op = "ReadIMsg"
          /\ IF call.sent = << >> THEN call.nth < MaxReads
             ELSE call.err = nil /\ call.nth <= Len(call.sent)
    /\ \E res \in {ReadIMsg(endianness, r)} :
       /\ call' = [op |-> "ReadIMsg", r |-> r, ret |-> res.ret, err |-> res.err,
                   allocated |-> res.allocated, payloadReads |-> res.payloadReads,
                   of |-> IF call.op = "NewReader" THEN call.of ELSE << >>,
                   sent |-> call.sent, got |-> call.got \o res.ret,
                   nth |-> IF call.op = "NewReader" THEN 1 ELSE call.nth + 1]
       /\ r' = res.r
       /\ endianness' = BigEndian
       /\ UNCHANGED <<pid, im>>

\* m, err := ReadIMsg(r), the nth call on this reader; of is the message r's
\* bytes were marshalled from, if they were and this is the first read; sent
\* is the messages marshalled into r's buffer, if it was made so, and got
\* the messages the calls on this reader have returned.  The caller reads a
\* peer's buffer MaxReads times; it reads a buffer of its own messages until
\* a call fails
CallReadIMsg ==
    /\ \/ call.op = "NewReader"
       \/ /\ call.op = "ReadIMsg"
          /\ IF call.sent = << >> THEN call.nth < MaxReads
             ELSE call.err = nil /\ call.nth <= Len(call.sent)
    /\ \E res \in {ReadIMsg(endianness, r)} :
       /\ call' = [op |-> "ReadIMsg", r |-> r, ret |-> res.ret, err |-> res.err,
                   allocated |-> res.allocated, payloadReads |-> res.payloadReads,
                   of |-> IF call.op = "NewReader" THEN call.of ELSE << >>,
                   sent |-> call.sent, got |-> call.got \o res.ret,
                   nth |-> IF call.op = "NewReader" THEN 1 ELSE call.nth + 1]
       /\ r' = res.r
       /\ UNCHANGED <<endianness, pid, im>>

\* err := im.UnmarshalBinary(data)
CallUnmarshalBinary(data) ==
    \E res \in {UnmarshalBinary(endianness, im, data)} :
       /\ call' = [op |-> "UnmarshalBinary", recv |-> im, data |-> data, err |-> res.err]
       /\ im' = res.im
       /\ UNCHANGED <<endianness, pid, r>>

\* n := im.Len()
CallLen ==
    /\ HoldsMessage
    /\ call' = [op |-> "Len", recv |-> im, ret |-> IMsgLen(im)]
    /\ UNCHANGED <<endianness, pid, im, r>>

\* order := SystemEndianness()
CallSystemEndianness ==
    /\ Idle
    /\ call' = [op |-> "SystemEndianness", ret |-> SystemEndianness(endianness)]
    /\ UNCHANGED <<endianness, pid, im, r>>

Next ==
    \/ Idle /\ \E m \in Messages : Literal(m)
    \/ Idle /\ \E f \in FieldValues, d \in SmallPayloads \cup LargePayloads :
                   CallComposeIMsg(f[1], f[2], d)
    \/ CallMarshalBinary
    \/ ReaderOfMarshalled
    \/ Idle /\ \E b \in PeerBuffers, chunk \in 0..MaxChunk : ReaderOfBuffer(b, chunk)
    \/ Idle /\ \E ms \in UNION {[1..k -> StreamMessages] : k \in 2..MaxMsgs} :
                   ReaderOfConcatenated(ms)
    \/ CallReadIMsg
    \/ (Idle \/ call.op = "IMsg") /\ \E b \in PeerBuffers : CallUnmarshalBinary(b)
    \/ CallLen
    \/ CallSystemEndianness

Spec == Init /\ [][Next]_vars

----------------------------------------------------------------------------
(* What the properties below read off a call.  The bytes of a header field *)
(* are those of the wire format, not taken from the codec.                 *)

\* the n bytes of v as the wire carries them in the process's byte order
FieldBytes(v, n) == WireBytes(endianness, v, n)

\* the value of the n-byte field that starts at offset off of the bytes b
FieldValue(b, off, n) ==
    LET digit(k) == b[off + k] * (256 ^ (IF endianness = LittleEndian THEN k - 1 ELSE n - k))
    IN IF n = 2 THEN digit(1) + digit(2)
       ELSE digit(1) + digit(2) + digit(3) + digit(4)

\* the bytes the reader of the last ReadIMsg call had left before the call
Unread == Len(call.r.s) - call.r.i

\* the length field of the header at the reader's offset before the call
WireLength == FieldValue(call.r.s, call.r.i + 4, 2)

\* the last call was ReadIMsg on a reader that had a whole header left
ReadWholeHeader == call.op = "ReadIMsg" /\ Unread >= 16

----------------------------------------------------------------------------
(* Properties.                                                             *)

\* C1: round trip.  MarshalBinary succeeds on every message whose encoded
\* size 16 + len(payload) is at most 16384, and ReadIMsg on a reader of
\* exactly the bytes it returned succeeds and returns a message with the
\* same type, peerID, PID, flags and payload, in either byte order.
RoundTrip ==
    /\ (call.op = "MarshalBinary" /\ 16 + Len(call.recv.Data) <= 16384)
           => call.err = nil
    /\ (call.op = "ReadIMsg" /\ call.of # << >>)
           => /\ call.err = nil
              /\ Len(call.ret) = 1
              /\ call.ret[1].Type = call.of[1].Type
              /\ call.ret[1].PeerID = call.of[1].PeerID
              /\ call.ret[1].PID = call.of[1].PID
              /\ call.ret[1].flags = call.of[1].flags
              /\ call.ret[1].Data = call.of[1].Data

\* a message of the largest size, with flags set, has come back from its bytes
RoundTripWitness ==
    /\ call.op = "ReadIMsg"
    /\ call.of # << >>
    /\ call.ret = call.of
    /\ call.of[1].flags # 0
    /\ Len(call.of[1].Data) = 16368

\* C2: MarshalBinary fails exactly when the payload is longer than 16368
\* bytes, and then returns no bytes and an ErrDataTooLarge that carries the
\* payload length and the limit 16368.
MarshalDataTooLarge ==
    call.op = "MarshalBinary" =>
        IF Len(call.recv.Data) > 16368
        THEN /\ call.ret = << >>
             /\ call.err = [kind |-> "ErrDataTooLarge",
                            DataLengthInBytes |-> Len(call.recv.Data),
                            MaxLengthInBytes |-> 16368]
        ELSE call.err = nil

\* a payload of 16369 bytes has been refused
MarshalDataTooLargeWitness ==
    /\ call.op = "MarshalBinary"
    /\ Len(call.recv.Data) = 16369
    /\ call.err.kind = "ErrDataTooLarge"

\* C3: the bytes of a successful MarshalBinary are 16 + len(payload) long:
\* type in bytes 0-3, the total length in bytes 4-5, flags in bytes 6-7,
\* peerID in bytes 8-11 and PID in bytes 12-15, each in the process's byte
\* order, and then the payload unchanged.
MarshalLayout ==
    (call.op = "MarshalBinary" /\ call.err = nil) =>
        LET m == call.recv
            bs == call.ret
        IN /\ Len(bs) = 16 + Len(m.Data)
           /\ SubSeq(bs, 1, 4) = FieldBytes(m.Type, 4)
           /\ SubSeq(bs, 5, 6) = FieldBytes(16 + Len(m.Data), 2)
           /\ SubSeq(bs, 7, 8) = FieldBytes(m.flags, 2)
           /\ SubSeq(bs, 9, 12) = FieldBytes(m.PeerID, 4)
           /\ SubSeq(bs, 13, 16) = FieldBytes(m.PID, 4)
           /\ SubSeq(bs, 17, Len(bs)) = m.Data
           \* imsg_test.go, "valid empty"
           /\ (m = ZeroIMsg /\ endianness = LittleEndian)
                  => bs = <<0, 0, 0, 0, 16, 0, 0, 0, 0, 0, 0, 0, 0, 0, 0, 0>>
           /\ (m = ZeroIMsg /\ endianness = BigEndian)
                  => bs = <<0, 0, 0, 0, 0, 16, 0, 0, 0, 0, 0, 0, 0, 0, 0, 0>>

\* a message with a payload and fields of distinct bytes has been marshalled
\* on a big-endian machine
MarshalLayoutWitness ==
    /\ call.op = "MarshalBinary"
    /\ call.err = nil
    /\ endianness = BigEndian
    /\ call.recv.Type = 16909060
    /\ Len(call.recv.Data) = 2

\* C4: ReadIMsg refuses a header whose length field is below 16 or above
\* 16384 with an ErrLengthOutOfBounds that carries the length and the bounds
\* 16 and 16384, whatever the other fields hold; a header whose length field
\* is 16 is read as a message with an empty payload.
LengthBounds ==
    ReadWholeHeader =>
        /\ (WireLength < 16 \/ WireLength > 16384)
               => /\ call.ret = << >>
                  /\ call.err = [kind |-> "ErrLengthOutOfBounds",
                                 LengthInBytes |-> WireLength,
                                 MinLengthInBytes |-> 16,
                                 MaxLengthInBytes |-> 16384]
        /\ WireLength = 16
               => /\ call.err = nil
                  /\ Len(call.ret) = 1
                  /\ call.ret[1].Data = << >>

\* a header that announces 16385 bytes has been refused
LengthBoundsWitness ==
    /\ ReadWholeHeader
    /\ WireLength = 16385
    /\ call.err.kind = "ErrLengthOutOfBounds"

\* C5: when ReadIMsg fails with ErrLengthOutOfBounds it has consumed the 16
\* bytes of the header and no more, has allocated no payload buffer and has
\* issued no payload read.
LengthCheckedBeforePayload ==
    (call.op = "ReadIMsg" /\ call.err.kind = "ErrLengthOutOfBounds") =>
        /\ r.i = call.r.i + 16
        /\ ~call.allocated
        /\ call.payloadReads = 0

\* a header that announces too much has been refused with bytes left unread
LengthCheckedBeforePayloadWitness ==
    /\ call.op = "ReadIMsg"
    /\ call.err.kind = "ErrLengthOutOfBounds"
    /\ call.err.LengthInBytes > 16384
    /\ r.i < Len(r.s)

\* C6: short payload.  When a header announces length 16 + N with N >= 1
\* and only k < N payload bytes follow it in the source, k = 0 included,
\* ReadIMsg returns no message and an ErrInsufficientData with
\* ExpectedBytes = N and ReadBytes = k.
ShortPayload ==
    (ReadWholeHeader /\ call.r.chunk = 0 /\ WireLength > 16 /\ WireLength <= 16384
        /\ Unread - 16 < WireLength - 16)
        => /\ call.ret = << >>
           /\ call.err = [kind |-> "ErrInsufficientData",
                          ExpectedBytes |-> WireLength - 16,
                          ReadBytes |-> Unread - 16]

\* C7: short header.  On a source that holds fewer than 16 bytes ReadIMsg
\* returns no message and the error of the read: io.EOF when the source is
\* empty, io.ErrUnexpectedEOF when it holds part of a header; never one of
\* the package's own errors.
ShortHeader ==
    (call.op = "ReadIMsg" /\ Unread < 16)
        => /\ call.ret = << >>
           /\ call.err = IF Unread = 0 THEN [kind |-> "io.EOF"]
                         ELSE [kind |-> "io.ErrUnexpectedEOF"]
           /\ call.err.kind \notin {"ErrDataTooLarge", "ErrLengthOutOfBounds",
                                    "ErrInsufficientData"}

\* a source of 15 bytes, one short of a header, has been read
ShortHeaderWitness ==
    /\ call.op = "ReadIMsg"
    /\ call.nth = 1
    /\ Unread = 15
    /\ call.err.kind = "io.ErrUnexpectedEOF"

\* C8: ComposeIMsg fails exactly when the payload is longer than 16368
\* bytes, and then returns no message and an ErrDataTooLarge that carries
\* the payload length and the limit 16368.
ComposeDataTooLarge ==
    call.op = "ComposeIMsg" =>
        IF Len(call.data) > 16368
        THEN /\ call.ret = << >>
             /\ call.err = [kind |-> "ErrDataTooLarge",
                            DataLengthInBytes |-> Len(call.data),
                            MaxLengthInBytes |-> 16368]
        ELSE call.err = nil /\ Len(call.ret) = 1

\* a payload of 16369 bytes has been refused
ComposeDataTooLargeWitness ==
    /\ call.op = "ComposeIMsg"
    /\ Len(call.data) = 16369
    /\ call.err.kind = "ErrDataTooLarge"

\* C9: on a payload of at most 16368 bytes ComposeIMsg returns a message
\* with the type, peerID and payload it was given, flags 0 and the PID of
\* the calling process.
ComposeFields ==
    (call.op = "ComposeIMsg" /\ Len(call.data) <= 16368) =>
        /\ call.err = nil
        /\ call.ret = <<[Type |-> call.typ, PeerID |-> call.peerID, PID |-> pid,
                         Data |-> call.data, flags |-> 0]>>
        /\ im = call.ret[1]

\* a message with the largest payload has been composed
ComposeFieldsWitness ==
    /\ call.op = "ComposeIMsg"
    /\ Len(call.data) = 16368
    /\ call.typ # 0
    /\ Len(call.ret) = 1

\* C10: the message of a successful ReadIMsg has the type, flags, peerID
\* and PID of the header in the process's byte order, its payload is the
\* bytes that follow the header in the source, and the payload is as long
\* as the header's length field less 16.
ReadFields ==
    (call.op = "ReadIMsg" /\ call.err = nil) =>
        LET b == call.r.s
            off == call.r.i
            m == call.ret[1]
        IN /\ Len(call.ret) = 1
           /\ m.Type = FieldValue(b, off, 4)
           /\ m.flags = FieldValue(b, off + 6, 2)
           /\ m.PeerID = FieldValue(b, off + 8, 4)
           /\ m.PID = FieldValue(b, off + 12, 4)
           /\ Len(m.Data) = WireLength - 16
           /\ off + WireLength <= Len(b)
           /\ m.Data = SubSeq(b, off + 17, off + WireLength)
           /\ r.i = off + WireLength

\* a message with a payload and fields of distinct bytes has been read from
\* a buffer that holds more than the message
ReadFieldsWitness ==
    /\ call.op = "ReadIMsg"
    /\ call.err = nil
    /\ Len(call.ret[1].Data) > 0
    /\ call.ret[1].PeerID # call.ret[1].PID
    /\ r.i < Len(r.s)

\* C11: UnmarshalBinary(buffer) succeeds exactly when ReadIMsg on a
\* bytes.Reader of the same buffer succeeds; on success the receiver's type,
\* peerID, PID, flags and payload are those of the message ReadIMsg returns,
\* and on failure the error is the one ReadIMsg returns, kind and values.
UnmarshalAsRead ==
    call.op = "UnmarshalBinary" =>
        \A res \in {ReadIMsg(endianness, NewReader(call.data, 0))} :
            /\ (call.err = nil) <=> (res.err = nil)
            /\ call.err = res.err
            /\ res.err = nil
                   => /\ im.Type = res.ret[1].Type
                      /\ im.PeerID = res.ret[1].PeerID
                      /\ im.PID = res.ret[1].PID
                      /\ im.flags = res.ret[1].flags
                      /\ im.Data = res.ret[1].Data

\* a buffer with flags set and a payload has been unmarshalled into a
\* message that held other flags and no payload
UnmarshalAsReadWitness ==
    /\ call.op = "UnmarshalBinary"
    /\ call.err = nil
    /\ im.flags = 65518
    /\ call.recv.flags = 204
    /\ Len(im.Data) = 1
    /\ call.recv.Data = << >>

\* C18: a failed UnmarshalBinary (short header, length out of bounds or
\* insufficient payload) leaves the receiver as it was: type, peerID, PID,
\* flags and payload are the values it held before the call.
UnmarshalFailureKeepsReceiver ==
    (call.op = "UnmarshalBinary" /\ call.err # nil) =>
        /\ im.Type = call.recv.Type
        /\ im.PeerID = call.recv.PeerID
        /\ im.PID = call.recv.PID
        /\ im.flags = call.recv.flags
        /\ im.Data = call.recv.Data

\* a buffer whose header is sound and whose payload is one byte short has been
\* refused by a message that held other fields and a payload
UnmarshalFailureKeepsReceiverWitness ==
    /\ call.op = "UnmarshalBinary"
    /\ call.err.kind = "ErrInsufficientData"
    /\ call.err.ReadBytes > 0
    /\ call.recv.Type = 16909060
    /\ call.recv.Data # << >>

\* C13: Len returns 16 + len(payload) for every message: 16 for a message
\* with no payload, and more than 16384 for a payload longer than 16368
\* bytes; the result is not capped and no message is refused.
LenIsHeaderPlusPayload ==
    call.op = "Len" =>
        /\ call.ret = 16 + Len(call.recv.Data)
        /\ call.recv.Data = << >> => call.ret = 16
        /\ Len(call.recv.Data) > 16368 => call.ret > 16384

\* Len has been taken of a message whose payload is one byte too long to
\* be marshalled
LenIsHeaderPlusPayloadWitness ==
    /\ call.op = "Len"
    /\ Len(call.recv.Data) = 16369
    /\ call.ret = 16385

\* C14: the bytes of a successful MarshalBinary carry in their length
\* field the number of bytes returned, which is 16 + len(payload) and lies
\* in 16..16384; a message whose size 16 + len(payload) does not fit 16 bits
\* (a payload of 65520 bytes or more) is refused, never encoded with the
\* size taken modulo 65536.
LengthFieldNeverWraps ==
    call.op = "MarshalBinary" =>
        /\ call.err = nil
               => /\ Len(call.ret) >= 16
                  /\ FieldValue(call.ret, 4, 2) = Len(call.ret)
                  /\ Len(call.ret) = 16 + Len(call.recv.Data)
                  /\ Len(call.ret) <= 16384
        /\ Len(call.recv.Data) >= 65520
               => /\ call.err # nil
                  /\ call.ret = << >>

\* a message of 65536 payload bytes, whose size taken modulo 65536 is the
\* size of a bare header, has been refused
LengthFieldNeverWrapsWitness ==
    /\ call.op = "MarshalBinary"
    /\ Len(call.recv.Data) = 65536
    /\ (16 + Len(call.recv.Data)) % 65536 = 16
    /\ call.err.kind = "ErrDataTooLarge"

\* C15: partial reads.  When a header announces length 16 + N and the
\* source holds all N payload bytes but delivers them in several Read
\* calls, each returning fewer than N bytes without error, ReadIMsg returns
\* a message with the complete N-byte payload.
PartialReads ==
    (ReadWholeHeader /\ call.r.chunk > 0 /\ WireLength > 16 /\ WireLength <= 16384
        /\ Unread >= WireLength)
        => /\ call.err = nil
           /\ Len(call.ret) = 1
           /\ call.ret[1].Data
                  = SubSeq(call.r.s, call.r.i + 17, call.r.i + WireLength)

\* C16: the package variable endianness is little-endian or big-endian
\* once init has run, and no call of ComposeIMsg, MarshalBinary, ReadIMsg,
\* UnmarshalBinary, Len or SystemEndianness, successful or failing, changes
\* it.
EndiannessNeverChanges ==
    /\ [](endianness \in {LittleEndian, BigEndian})
    /\ [][endianness' = endianness]_vars

\* on a little-endian machine a second ReadIMsg on one reader has failed
EndiannessNeverChangesWitness ==
    /\ endianness = LittleEndian
    /\ call.op = "ReadIMsg"
    /\ call.nth = 2
    /\ call.err # nil

\* the bytes b in the opposite order
Reversed(b) == [k \in 1..Len(b) |-> b[Len(b) + 1 - k]]

\* an encoding with the bytes of each header field reversed and the payload
\* as it is
FieldsReversed(bs) ==
    Reversed(SubSeq(bs, 1, 4)) \o Reversed(SubSeq(bs, 5, 6))
        \o Reversed(SubSeq(bs, 7, 8)) \o Reversed(SubSeq(bs, 9, 12))
        \o Reversed(SubSeq(bs, 13, 16)) \o SubSeq(bs, 17, Len(bs))

\* C12: one byte order serves both directions.  SystemEndianness returns
\* the package's endianness; the bytes MarshalBinary returns are the
\* encoding in the order SystemEndianness reports, and ReadIMsg decodes the
\* header fields in that order; a message marshalled and read back on a
\* little-endian machine is the original, and likewise on a big-endian one;
\* and the big-endian encoding of a message is its little-endian encoding
\* with the bytes of type, length, flags, peerID and PID reversed and the
\* payload identical.
ByteOrderSymmetry ==
    /\ call.op = "SystemEndianness" => call.ret = endianness
    /\ (call.op = "MarshalBinary" /\ call.err = nil)
           => \A le \in {MarshalBinary(LittleEndian, call.recv).ret},
                 be \in {MarshalBinary(BigEndian, call.recv).ret} :
                  /\ be = FieldsReversed(le)
                  /\ le = FieldsReversed(be)
                  /\ call.ret = IF SystemEndianness(endianness) = LittleEndian
                                THEN le ELSE be
    /\ (call.op = "ReadIMsg" /\ call.of # << >>) => call.ret = call.of
    /\ (call.op = "ReadIMsg" /\ call.err = nil)
           => \A hdr \in {SubSeq(call.r.s, call.r.i + 1, call.r.i + 16)} :
                  /\ call.ret[1].Type
                         = Uint(SystemEndianness(endianness), SubSeq(hdr, 1, 4))
                  /\ call.ret[1].flags
                         = Uint(SystemEndianness(endianness), SubSeq(hdr, 7, 8))
                  /\ call.ret[1].PeerID
                         = Uint(SystemEndianness(endianness), SubSeq(hdr, 9, 12))
                  /\ call.ret[1].PID
                         = Uint(SystemEndianness(endianness), SubSeq(hdr, 13, 16))

\* a message whose fields are of distinct bytes has been marshalled with a
\* one-byte payload on a big-endian machine
ByteOrderSymmetryWitness ==
    /\ call.op = "MarshalBinary"
    /\ call.err = nil
    /\ endianness = BigEndian
    /\ call.recv.PID = 2146360780
    /\ call.recv.flags = 65518
    /\ Len(call.recv.Data) = 1

\* C17: a successful ReadIMsg consumes as many bytes as the header's length
\* field states and leaves the bytes after them unread; so on a bytes.Reader
\* of the encodings of m1..mk written one after another, the first k calls
\* of ReadIMsg return m1..mk in order and the next call returns no message
\* and io.EOF.
SuccessiveReads ==
    /\ (call.op = "ReadIMsg" /\ call.err = nil)
           => /\ r.i = call.r.i + WireLength
              /\ r.s = call.r.s
    /\ (call.op = "ReadIMsg" /\ call.sent # << >>)
           => IF call.nth <= Len(call.sent)
              THEN /\ call.err = nil
                   /\ call.ret = <<call.sent[call.nth]>>
                   /\ call.got = SubSeq(call.sent, 1, call.nth)
              ELSE /\ call.ret = << >>
                   /\ call.err = [kind |-> "io.EOF"]
                   /\ call.got = call.sent
                   /\ r.i = Len(r.s)

\* two different messages, the first with the largest payload, have come
\* back in order from one buffer, and the third call has met its end
SuccessiveReadsWitness ==
    /\ call.op = "ReadIMsg"
    /\ Len(call.sent) = 2
    /\ call.nth = 3
    /\ call.got = call.sent
    /\ Len(call.sent[1].Data) = 16368
    /\ call.sent[2].Data = <<116, 255>>
    /\ call.err.kind = "io.EOF"

====
